---- MODULE Spec2Model ----
(***************************************************************************)
(* atlas-server: the Stripe webhook route of src/index.js, its two         *)
(* reconciliation handlers (handleSubscriptionCreated,                     *)
(* handleSubscriptionCancelled), the middleware registered in front of the *)
(* route, and the two PostgreSQL tables the handlers write.                *)
(*                                                                         *)
(* Every `await` of the source is a separate step: between two steps of    *)
(* one request any other request may run.  PostgreSQL is modelled at its   *)
(* default isolation (READ COMMITTED): rows inserted inside BEGIN..COMMIT  *)
(* live in the transaction of the inserting client until COMMIT publishes  *)
(* them; a statement sent through pool.query is its own transaction.       *)
(*                                                                         *)
(* These specifications are given.                                         *)
(*   SpecWebhook  the middleware stack exactly as index.js registers it:   *)
(*                express.json(), express.static(), then the route's       *)
(*                express.raw() and constructEvent.                        *)
(*   Spec         the route handler from the point where express.raw()     *)
(*                has the request (the body still unparsed), i.e. the      *)
(*                situation the route was written for, followed by the     *)
(*                reconciliation handlers and the store; requests run      *)
(*                concurrently, every call to the database or to the       *)
(*                provider may fail, the payloads are the usual ones.      *)
(*   SpecPayload  the same handlers, one request at a time, over every     *)
(*                payload and every provider answer of the model.          *)
(*   SpecStatus   the handlers, one request at a time, beside the status   *)
(*                query GET /api/subscription-status/:walletAddress.       *)
(*   SpecTimeout  the handlers, one request at a time, when a call to the  *)
(*                database may never answer; with fairness.                *)
(***************************************************************************)
EXTENDS Integers, FiniteSets, Sequences, TLC

\* ------------------------------------------------------------------ bounds
\* Number of webhook deliveries in one run; all may be in flight at once.
MaxReq == 2
\* Number of webhook deliveries in one run over every payload (SpecPayload),
\* handled one after the other.
MaxPayloadReq == 1

\* --------------------------------------------------------------- constants
\* index.js:127  new Date(currentPeriodEnd * 1000): epoch seconds to ms
MsPerSec == 1000
\* One step of the clock, called a day: an hour of seconds, so that day 1
\* plus 30 days in milliseconds stays inside TLC's 32-bit integers.
DaySec == 60 * 60
DayMs == DaySec * MsPerSec
\* index.js:131  periodEndDate.setDate(periodEndDate.getDate() + 30)
DefaultPeriodDays == 30

Req == 1..MaxReq

\* Every falsy JavaScript value a metadata field can hold (undefined, null,
\* the empty string) is written "": the code only ever tests `!walletAddress`.
NoWallet == ""
\* Each metadata location carries its own address when it carries one, so
\* that the stored address tells which location it was taken from.
SubscriptionWallet == "0xA"
SessionWallet == "0xB"
DetailsWallet == "0xC"
Wallets == {SubscriptionWallet, SessionWallet, DetailsWallet}

SubIds == {"sub_1", "sub_2"}
\* session.subscription of the checkout session that created a subscription
SessionOf(sub) == IF sub = "sub_1" THEN "cs_1" ELSE "cs_2"
\* stripeSubscription.customer
CustomerOf(sub) == IF sub = "sub_1" THEN "cus_1" ELSE "cus_2"

CheckoutCompleted == "checkout.session.completed"
SubscriptionDeleted == "customer.subscription.deleted"
OtherType == "invoice.paid"
EventTypes == {CheckoutCompleted, SubscriptionDeleted, OtherType}

\* session.customer_details: absent, or present with an e-mail and an
\* optional metadata.wallet_address
NoDetails == [present |-> FALSE, email |-> "", wallet |-> NoWallet]
CustomerDetails ==
    {NoDetails} \cup {[present |-> TRUE, email |-> "a@b.com", wallet |-> w] : w \in {NoWallet, DetailsWallet}}

\* event.data.object of each recognised event type
SessionObjects ==
    {[id |-> SessionOf(s), subscription |-> s, wallet |-> w, customer_details |-> cd] :
        s \in SubIds, w \in {NoWallet, SessionWallet}, cd \in CustomerDetails}
SubscriptionObjects ==
    {[id |-> s, subscription |-> s, wallet |-> NoWallet, customer_details |-> NoDetails] :
        s \in SubIds}
NoObject == [id |-> "", subscription |-> "", wallet |-> NoWallet, customer_details |-> NoDetails]

Events ==
    {[type |-> CheckoutCompleted, object |-> o] : o \in SessionObjects}
    \cup {[type |-> SubscriptionDeleted, object |-> o] : o \in SubscriptionObjects}
    \cup {[type |-> OtherType, object |-> NoObject]}
\* One event of each type, for the runs that only follow the request body.
WebhookEvents == {e \in Events : e.object.subscription \in {"", "sub_1"}
                                 /\ e.object.wallet = NoWallet
                                 /\ e.object.customer_details.wallet = NoWallet
                                 /\ (e.type = CheckoutCompleted => e.object.customer_details.present)}
NoEvent == [type |-> "", object |-> NoObject]

\* What stripe.subscriptions.retrieve can answer for a subscription id.
\* current_period_end is epoch seconds; 0 stands for every value the test
\* `currentPeriodEnd && !isNaN(currentPeriodEnd)` rejects.
ProviderStatuses == {"active", "trialing"}
ProviderPeriodEnds == {0, 2 * DaySec}
StripeSubscriptions(sub) ==
    {[id |-> sub, customer |-> CustomerOf(sub), status |-> st,
      current_period_end |-> pe, wallet |-> w] :
        st \in ProviderStatuses, pe \in ProviderPeriodEnds, w \in {NoWallet, SubscriptionWallet}}
NoStripeSubscription ==
    [id |-> "", customer |-> "", status |-> "", current_period_end |-> 0, wallet |-> NoWallet]

\* The request body as the route sees it: the Buffer of the bytes received,
\* the object a JSON parser made of them, or the empty object body-parser
\* leaves when it parsed nothing.
Buffer(e) == [form |-> "buffer", event |-> e]
Parsed(e) == [form |-> "object", event |-> e]
EmptyBody == [form |-> "empty", event |-> NoEvent]
JsonType == "application/json"
ContentTypes == {JsonType, "text/plain"}

VARIABLES
    now,                       \* wall clock and database clock, in ms
    expressMajor,              \* major version of the installed express: 4 or 5,
                               \* 0 until a rejected handler first shows which
    subscriptions,             \* committed rows of table subscriptions
    subscription_wallets,      \* committed rows of table subscription_wallets
    subscriptions_id_seq,      \* last value of the SERIAL of subscriptions.id
    pc,                        \* per request: where its handler stands
    req,                       \* per request: the HTTP request
    event,                     \* per request: the event constructEvent returned
    client,                    \* per request: the pooled client of handleSubscriptionCreated
    tx,                        \* per request: the transaction open on that client
    stripeSubscription,        \* per request: local of handleSubscriptionCreated
    walletAddress,             \* per request: local of handleSubscriptionCreated
    periodEndDate,             \* per request: local of handleSubscriptionCreated
    error,                     \* per request: the error thrown in the handler, "" if none
    response,                  \* per request: HTTP status sent, 0 while none was sent
    lookups,                   \* per request: number of stripe.subscriptions.retrieve calls
    reply                      \* what the last GET /api/subscription-status answered

vars == <<now, expressMajor, subscriptions, subscription_wallets,
          subscriptions_id_seq, pc, req, event, client, tx, stripeSubscription,
          walletAddress, periodEndDate, error, response, lookups, reply>>

store == <<subscriptions, subscription_wallets>>
seqs == <<subscriptions_id_seq>>
locals == <<stripeSubscription, walletAddress, periodEndDate>>

NoTx == [state |-> "none", start |-> 0, subs |-> {}, wallets |-> {}]
NoReply == [wallet |-> NoWallet, code |-> 0, hasSubscription |-> FALSE, status |-> "",
             expiresAt |-> 0]
NoRequest == [contentType |-> "", sigOK |-> FALSE, sent |-> NoEvent, body |-> EmptyBody, parsed |-> FALSE]

\* ------------------------------------------------------------ middleware

\* type-is: does the Content-Type match the parser's `type` option?  Both
\* express.json() (default type) and express.raw({type: 'application/json'})
\* ask for application/json.
ShouldParse(request) == request.contentType = JsonType

\* express.json(): skips a request that was parsed already or has another
\* content type, otherwise reads the stream, JSON.parse()s it into req.body
\* and marks the request parsed (req._body = true).
JsonParser(request) ==
    IF request.parsed \/ ~ShouldParse(request)
    THEN request
    ELSE [request EXCEPT !.body = Parsed(request.sent), !.parsed = TRUE]

\* express.raw({type: 'application/json'}): the same skip rules; otherwise
\* req.body becomes the Buffer of the bytes received.
RawParser(request) ==
    IF request.parsed \/ ~ShouldParse(request)
    THEN request
    ELSE [request EXCEPT !.body = Buffer(request.sent), !.parsed = TRUE]

\* Variant: the signature header is not compared at all.
SignatureNotChecked(payload, sigOK) == payload.form = "buffer"

\* stripe.webhooks.constructEvent(payload, sig, secret): the HMAC is taken
\* over the payload as a string, so only a Buffer or string of the very
\* bytes the sender signed can match; the event is JSON.parse(payload).
SignatureVerifies(payload, sigOK) == payload.form = "buffer" /\ sigOK
ConstructEvent(payload) == payload.event

\* ------------------------------------------------- handleSubscriptionCreated

\* Variant: the session's metadata is read before the subscription's.
ResolveWalletSessionFirst(stripeSub, session) ==
    LET w1 == session.wallet
        w2 == IF w1 = NoWallet THEN stripeSub.wallet ELSE w1
        w3 == IF w2 = NoWallet THEN session.customer_details.wallet ELSE w2
    IN  w3

\* index.js:108-114: the three assignments to walletAddress, in order.
ResolveWallet(stripeSub, session) ==
    LET w1 == stripeSub.wallet
        w2 == IF w1 = NoWallet THEN session.wallet ELSE w1
        w3 == IF w2 = NoWallet THEN session.customer_details.wallet ELSE w2
    IN  w3

\* Variant: the else branch with the default is missing.
PeriodEndDateNoDefault(currentPeriodEnd, clock) == currentPeriodEnd * MsPerSec

\* index.js:123-132: the provider's epoch seconds as a Date, or the current
\* time moved 30 calendar days ahead.
PeriodEndDate(currentPeriodEnd, clock) ==
    IF currentPeriodEnd # 0
    THEN currentPeriodEnd * MsPerSec
    ELSE clock + DefaultPeriodDays * DayMs

\* index.js:134-151: the row INSERT INTO subscriptions adds; created_at and
\* updated_at default to NOW(), the start time of the transaction.
SubscriptionRow(id, stripeSub, session, periodEnd, txStart) ==
    [id |-> id,
     stripe_customer_id |-> stripeSub.customer,
     stripe_subscription_id |-> stripeSub.id,
     stripe_session_id |-> session.id,
     customer_email |-> session.customer_details.email,
     status |-> stripeSub.status,
     current_period_end |-> periodEnd,
     created_at |-> txStart,
     updated_at |-> txStart]

\* index.js:157-163: the row INSERT INTO subscription_wallets adds.  Its
\* own SERIAL id is left out: no statement of the program reads it, and
\* (subscription_id, wallet_address) is a key of the table.
WalletRow(dbSubscriptionId, wallet, txStart) ==
    [subscription_id |-> dbSubscriptionId,
     wallet_address |-> wallet,
     is_primary |-> TRUE,
     created_at |-> txStart]

\* Variant: the UPDATE has no WHERE clause.
MarkCancelledAll(rows, subId, clock) ==
    {[row EXCEPT !.status = "cancelled", !.updated_at = clock] : row \in rows}

\* Variant: the WHERE clause compares the wrong column.
MarkCancelledBySession(rows, subId, clock) ==
    {IF row.stripe_session_id = subId
     THEN [row EXCEPT !.status = "cancelled", !.updated_at = clock]
     ELSE row : row \in rows}

\* index.js:182-186: UPDATE subscriptions SET status = 'cancelled',
\* updated_at = NOW() WHERE stripe_subscription_id = $1, on the committed rows.
MarkCancelled(rows, subId, clock) ==
    {IF row.stripe_subscription_id = subId
     THEN [row EXCEPT !.status = "cancelled", !.updated_at = clock]
     ELSE row : row \in rows}

\* ------------------------------------------------------------------ Init

\* The database outlives the server (createTables of index.js:28-62 says
\* CREATE TABLE IF NOT EXISTS): at start the tables are empty, or hold what
\* an earlier run of this server committed for a checkout of sub_1 on day 0.
EarlierSubscription ==
    SubscriptionRow(1, [id |-> "sub_1", customer |-> CustomerOf("sub_1"), status |-> "active",
                        current_period_end |-> 2 * DaySec, wallet |-> SubscriptionWallet],
                    [id |-> SessionOf("sub_1"), subscription |-> "sub_1", wallet |-> NoWallet,
                     customer_details |-> [present |-> TRUE, email |-> "a@b.com",
                                           wallet |-> NoWallet]],
                    2 * DaySec * MsPerSec, 0)
EarlierWallet == WalletRow(1, SubscriptionWallet, 0)

Init ==
    /\ now = DayMs
    /\ expressMajor = 0
    /\ \/ /\ subscriptions = {}
          /\ subscription_wallets = {}
          /\ subscriptions_id_seq = 0
       \/ /\ subscriptions = {EarlierSubscription}
          /\ subscription_wallets = {EarlierWallet}
          /\ subscriptions_id_seq = 1
    /\ pc = [r \in Req |-> "idle"]
    /\ req = [r \in Req |-> NoRequest]
    /\ event = [r \in Req |-> NoEvent]
    /\ client = [r \in Req |-> "none"]
    /\ tx = [r \in Req |-> NoTx]
    /\ stripeSubscription = [r \in Req |-> NoStripeSubscription]
    /\ walletAddress = [r \in Req |-> NoWallet]
    /\ periodEndDate = [r \in Req |-> 0]
    /\ error = [r \in Req |-> ""]
    /\ response = [r \in Req |-> 0]
    /\ lookups = [r \in Req |-> 0]
    /\ reply = NoReply

\* --------------------------------------------------------------- actions

\* Request r arrives; requests are numbered in the order of their arrival.
\* They arrive at distinct instants: the clock moves one step with each.
Accept(r, request, at) ==
    /\ pc[r] = "idle"
    /\ \A q \in 1..(r - 1) : pc[q] # "idle"
    /\ req' = [req EXCEPT ![r] = request]
    /\ pc' = [pc EXCEPT ![r] = at]
    /\ now' = now + DayMs
    /\ UNCHANGED <<expressMajor, reply, store, seqs, event, client, tx, locals, error,
                   response, lookups>>

\* A POST /stripe-webhook enters the application: first in line is the
\* global express.json() of index.js:18.
Receive(r, ct, ok, e) ==
    Accept(r, [contentType |-> ct, sigOK |-> ok, sent |-> e, body |-> EmptyBody,
               parsed |-> FALSE], "json")

\* index.js:18  app.use(express.json())
GlobalJson(r) ==
    /\ pc[r] = "json"
    /\ req' = [req EXCEPT ![r] = JsonParser(req[r])]
    /\ pc' = [pc EXCEPT ![r] = "static"]
    /\ UNCHANGED <<now, expressMajor, reply, store, seqs, event, client, tx, locals,
                   error, response, lookups>>

\* index.js:19  app.use(express.static('public')): a POST falls through.
Static(r) ==
    /\ pc[r] = "static"
    /\ pc' = [pc EXCEPT ![r] = "route"]
    /\ UNCHANGED <<now, expressMajor, reply, store, seqs, req, event, client, tx, locals,
                   error, response, lookups>>

\* index.js:65  the route's own express.raw({type: 'application/json'})
RouteRaw(r) ==
    /\ pc[r] = "route"
    /\ req' = [req EXCEPT ![r] = RawParser(req[r])]
    /\ pc' = [pc EXCEPT ![r] = "verify"]
    /\ UNCHANGED <<now, expressMajor, reply, store, seqs, event, client, tx, locals,
                   error, response, lookups>>

\* index.js:65  a JSON POST whose body no earlier middleware has read
\* reaches the route, and the route's express.raw() reads it.
ReceiveAtRoute(r, ok, e) ==
    Accept(r, RawParser([contentType |-> JsonType, sigOK |-> ok, sent |-> e,
                         body |-> EmptyBody, parsed |-> FALSE]), "verify")

\* Variant: the default case of the switch falls into the cancellation case.
VerifyDefaultCancels(r) ==
    /\ pc[r] = "verify"
    /\ IF ~SignatureVerifies(req[r].body, req[r].sigOK)
       THEN /\ response' = [response EXCEPT ![r] = 400]
            /\ pc' = [pc EXCEPT ![r] = "done"]
            /\ UNCHANGED event
       ELSE LET e == ConstructEvent(req[r].body)
            IN  /\ event' = [event EXCEPT ![r] = e]
                /\ pc' = [pc EXCEPT ![r] = IF e.type = CheckoutCompleted
                                          THEN "connect" ELSE "cancel"]
                /\ UNCHANGED response
    /\ req' = [req EXCEPT ![r] = NoRequest]
    /\ UNCHANGED <<now, expressMajor, reply, store, seqs, client, tx, locals, error,
                   lookups>>

\* index.js:66-93 up to the first await: constructEvent, then the switch.
\* A failed verification answers 400 and returns; a completion calls
\* handleSubscriptionCreated (which awaits pool.connect()); a deletion calls
\* handleSubscriptionCancelled (which awaits the UPDATE); any other type
\* falls to res.json({received: true}) at once.
Verify(r) ==
    /\ pc[r] = "verify"
    /\ IF ~SignatureVerifies(req[r].body, req[r].sigOK)
       THEN /\ response' = [response EXCEPT ![r] = 400]
            /\ pc' = [pc EXCEPT ![r] = "done"]
            /\ UNCHANGED event
       ELSE LET e == ConstructEvent(req[r].body)
            IN  IF e.type = CheckoutCompleted
                THEN /\ event' = [event EXCEPT ![r] = e]
                     /\ pc' = [pc EXCEPT ![r] = "connect"]
                     /\ UNCHANGED response
                ELSE IF e.type = SubscriptionDeleted
                THEN /\ event' = [event EXCEPT ![r] = e]
                     /\ pc' = [pc EXCEPT ![r] = "cancel"]
                     /\ UNCHANGED response
                ELSE /\ pc' = [pc EXCEPT ![r] = "done"]
                     /\ response' = [response EXCEPT ![r] = 200]
                     /\ UNCHANGED event
    /\ req' = [req EXCEPT ![r] = NoRequest]
    /\ UNCHANGED <<now, expressMajor, reply, store, seqs, client, tx, locals, error,
                   lookups>>

\* index.js:98  const client = await pool.connect(), outside the try: a
\* failure rejects the handler with neither ROLLBACK nor release.  On
\* success the handler goes on to send BEGIN.
Connect(r, ok) ==
    /\ pc[r] = "connect"
    /\ IF ok
       THEN /\ client' = [client EXCEPT ![r] = "held"]
            /\ pc' = [pc EXCEPT ![r] = "begin"]
            /\ UNCHANGED error
       ELSE /\ error' = [error EXCEPT ![r] = "ConnectError"]
            /\ pc' = [pc EXCEPT ![r] = "rejected"]
            /\ UNCHANGED client
    /\ UNCHANGED <<now, expressMajor, reply, store, seqs, req, event, tx, locals, response,
                   lookups>>

\* index.js:101  await client.query('BEGIN'); then index.js:104-105 sends
\* the provider lookup.
Begin(r, ok) ==
    /\ pc[r] = "begin"
    /\ IF ok
       THEN /\ tx' = [tx EXCEPT ![r] = [NoTx EXCEPT !.state = "open", !.start = now]]
            /\ pc' = [pc EXCEPT ![r] = "retrieve"]
            /\ UNCHANGED error
       ELSE /\ error' = [error EXCEPT ![r] = "PersistenceError"]
            /\ pc' = [pc EXCEPT ![r] = "rollback"]
            /\ UNCHANGED tx
    /\ UNCHANGED <<now, expressMajor, reply, store, seqs, req, event, client, locals,
                   response, lookups>>

\* Variant: the test for a missing wallet is left out.
WalletNeverMissing(wallet) == FALSE

\* index.js:118  if (!walletAddress)
WalletMissing(wallet) == wallet = NoWallet

\* index.js:105-151  await stripe.subscriptions.retrieve(subscriptionId)
\* answers or throws (answer = NoStripeSubscription); on an answer the wallet
\* is resolved (a missing wallet throws), the period end is computed and the
\* parameters of the first INSERT are built (session.customer_details.email
\* throws a TypeError when customer_details is absent), and the INSERT is
\* sent.
RetrieveAnswer(r, answer) ==
    /\ pc[r] = "retrieve"
    /\ lookups' = [lookups EXCEPT ![r] = @ + 1]
    /\ LET session == event[r].object
           wallet == ResolveWallet(answer, session)
       IN  /\ stripeSubscription' = [stripeSubscription EXCEPT ![r] = answer]
           /\ IF answer = NoStripeSubscription
              THEN /\ error' = [error EXCEPT ![r] = "LookupError"]
                   /\ pc' = [pc EXCEPT ![r] = "rollback"]
                   /\ UNCHANGED <<walletAddress, periodEndDate>>
              ELSE /\ walletAddress' = [walletAddress EXCEPT ![r] = wallet]
                   /\ IF WalletMissing(wallet)
                      THEN /\ error' = [error EXCEPT ![r] = "MissingWalletError"]
                           /\ pc' = [pc EXCEPT ![r] = "rollback"]
                           /\ UNCHANGED periodEndDate
                      ELSE /\ periodEndDate' = [periodEndDate EXCEPT ![r] =
                                  PeriodEndDate(answer.current_period_end, now)]
                           /\ IF ~session.customer_details.present
                              THEN /\ error' = [error EXCEPT ![r] = "TypeError"]
                                   /\ pc' = [pc EXCEPT ![r] = "rollback"]
                              ELSE /\ pc' = [pc EXCEPT ![r] = "insertSub"]
                                   /\ UNCHANGED error
    /\ UNCHANGED <<now, expressMajor, reply, store, seqs, req, event, client, tx,
                   response>>

Retrieve(r, answers) ==
    \E answer \in answers \cup {NoStripeSubscription} : RetrieveAnswer(r, answer)

\* Variant: the first INSERT goes through pool.query, outside the
\* transaction, and is committed at once.
InsertSubscriptionAutocommit(r, ok) ==
    /\ pc[r] = "insertSub"
    /\ IF ok
       THEN LET id == subscriptions_id_seq + 1
                row == SubscriptionRow(id, stripeSubscription[r], event[r].object,
                                       periodEndDate[r], now)
            IN  /\ subscriptions_id_seq' = id
                /\ subscriptions' = subscriptions \cup {row}
                /\ tx' = [tx EXCEPT ![r].subs = @ \cup {row}]
                /\ pc' = [pc EXCEPT ![r] = "insertWallet"]
                /\ UNCHANGED error
       ELSE /\ error' = [error EXCEPT ![r] = "PersistenceError"]
            /\ tx' = [tx EXCEPT ![r].state = "aborted"]
            /\ pc' = [pc EXCEPT ![r] = "rollback"]
            /\ UNCHANGED <<subscriptions_id_seq, subscriptions>>
    /\ UNCHANGED <<now, expressMajor, reply, subscription_wallets, req, event, client, locals,
                   response, lookups>>

\* index.js:134-153  the INSERT INTO subscriptions executes inside the
\* transaction and returns the new id, or fails; then index.js:157 sends
\* the second INSERT.
InsertSubscription(r, ok) ==
    /\ pc[r] = "insertSub"
    /\ IF ok
       THEN LET id == subscriptions_id_seq + 1
                row == SubscriptionRow(id, stripeSubscription[r], event[r].object,
                                       periodEndDate[r], tx[r].start)
            IN  /\ subscriptions_id_seq' = id
                /\ tx' = [tx EXCEPT ![r].subs = @ \cup {row}]
                /\ pc' = [pc EXCEPT ![r] = "insertWallet"]
                /\ UNCHANGED error
       ELSE /\ error' = [error EXCEPT ![r] = "PersistenceError"]
            /\ tx' = [tx EXCEPT ![r].state = "aborted"]
            /\ pc' = [pc EXCEPT ![r] = "rollback"]
            /\ UNCHANGED subscriptions_id_seq
    /\ UNCHANGED <<now, expressMajor, reply, store, req, event, client, locals,
                   response, lookups>>

\* index.js:157-167  the INSERT INTO subscription_wallets executes inside
\* the transaction, or fails; then COMMIT is sent.
InsertWallet(r, ok) ==
    /\ pc[r] = "insertWallet"
    /\ IF ok
       THEN LET dbSubscriptionId == (CHOOSE row \in tx[r].subs : TRUE).id
                link == WalletRow(dbSubscriptionId, walletAddress[r], tx[r].start)
            IN  /\ tx' = [tx EXCEPT ![r].wallets = @ \cup {link}]
                /\ pc' = [pc EXCEPT ![r] = "commit"]
                /\ UNCHANGED error
       ELSE /\ error' = [error EXCEPT ![r] = "PersistenceError"]
            /\ tx' = [tx EXCEPT ![r].state = "aborted"]
            /\ pc' = [pc EXCEPT ![r] = "rollback"]
    /\ UNCHANGED <<now, expressMajor, reply, store, seqs, req, event, client, locals,
                   response, lookups>>

\* The locals of handleSubscriptionCreated go when it returns or throws.
DropLocals(r) ==
    /\ stripeSubscription' = [stripeSubscription EXCEPT ![r] = NoStripeSubscription]
    /\ walletAddress' = [walletAddress EXCEPT ![r] = NoWallet]
    /\ periodEndDate' = [periodEndDate EXCEPT ![r] = 0]

\* Variant: the catch block logs the error of a failed COMMIT and does not
\* rethrow it.
CommitErrorSwallowed(r, ok) ==
    /\ pc[r] = "commit"
    /\ IF ok
       THEN /\ subscriptions' = subscriptions \cup tx[r].subs
            /\ subscription_wallets' = subscription_wallets \cup tx[r].wallets
            /\ tx' = [tx EXCEPT ![r].state = "committed"]
       ELSE /\ tx' = [tx EXCEPT ![r].state = "rolledback"]
            /\ UNCHANGED store
    /\ client' = [client EXCEPT ![r] = "released"]
    /\ pc' = [pc EXCEPT ![r] = "respond"]
    /\ DropLocals(r)
    /\ UNCHANGED <<now, expressMajor, reply, seqs, req, event, error, response, lookups>>

\* index.js:167-177  COMMIT publishes the rows of the transaction, the
\* client is released and the handler returns; a failed COMMIT publishes
\* nothing and is caught.
Commit(r, ok) ==
    /\ pc[r] = "commit"
    /\ IF ok
       THEN /\ subscriptions' = subscriptions \cup tx[r].subs
            /\ subscription_wallets' = subscription_wallets \cup tx[r].wallets
            /\ tx' = [tx EXCEPT ![r].state = "committed"]
            /\ client' = [client EXCEPT ![r] = "released"]
            /\ pc' = [pc EXCEPT ![r] = "respond"]
            /\ DropLocals(r)
            /\ UNCHANGED error
       ELSE /\ error' = [error EXCEPT ![r] = "PersistenceError"]
            /\ tx' = [tx EXCEPT ![r].state = "aborted"]
            /\ pc' = [pc EXCEPT ![r] = "rollback"]
            /\ UNCHANGED <<store, client, locals>>
    /\ UNCHANGED <<now, expressMajor, reply, seqs, req, event, response, lookups>>

\* Variant: there is no finally block; the client is released only after
\* COMMIT.
RollbackKeepsClient(r) ==
    /\ pc[r] = "rollback"
    /\ tx' = [tx EXCEPT ![r] = [NoTx EXCEPT !.state = "rolledback"]]
    /\ pc' = [pc EXCEPT ![r] = "rejected"]
    /\ DropLocals(r)
    /\ UNCHANGED <<now, expressMajor, reply, store, seqs, req, event, client, error,
                   response, lookups>>

\* Variant: the catch block sends COMMIT where it should send ROLLBACK.
RollbackCommits(r) ==
    /\ pc[r] = "rollback"
    /\ subscriptions' = subscriptions \cup tx[r].subs
    /\ subscription_wallets' = subscription_wallets \cup tx[r].wallets
    /\ tx' = [tx EXCEPT ![r] = [NoTx EXCEPT !.state = "committed"]]
    /\ client' = [client EXCEPT ![r] = "released"]
    /\ pc' = [pc EXCEPT ![r] = "rejected"]
    /\ DropLocals(r)
    /\ UNCHANGED <<now, expressMajor, reply, seqs, req, event, error, response, lookups>>

\* index.js:170-176  catch: ROLLBACK discards the rows of the transaction,
\* the error is rethrown, finally releases the client.
Rollback(r) ==
    /\ pc[r] = "rollback"
    /\ tx' = [tx EXCEPT ![r] = [NoTx EXCEPT !.state = "rolledback"]]
    /\ client' = [client EXCEPT ![r] = "released"]
    /\ pc' = [pc EXCEPT ![r] = "rejected"]
    /\ DropLocals(r)
    /\ UNCHANGED <<now, expressMajor, reply, store, seqs, req, event, error, response, lookups>>

\* Variant: the cancellation deletes the rows (the links go with them, ON
\* DELETE CASCADE).
CancelDeletes(r, ok) ==
    /\ pc[r] = "cancel"
    /\ IF ok
       THEN LET gone == {row \in subscriptions :
                            row.stripe_subscription_id = event[r].object.id}
            IN  /\ subscriptions' = subscriptions \ gone
                /\ subscription_wallets' =
                      {link \in subscription_wallets :
                          \A row \in gone : link.subscription_id # row.id}
                /\ pc' = [pc EXCEPT ![r] = "respond"]
                /\ UNCHANGED error
       ELSE /\ error' = [error EXCEPT ![r] = "PersistenceError"]
            /\ pc' = [pc EXCEPT ![r] = "rejected"]
            /\ UNCHANGED store
    /\ UNCHANGED <<now, expressMajor, reply, seqs, req, event, client, tx,
                   locals, response, lookups>>

\* Variant: an UPDATE that matched no row is reported as an error.
CancelRejectsUnknown(r, ok) ==
    /\ pc[r] = "cancel"
    /\ IF ok /\ \E row \in subscriptions : row.stripe_subscription_id = event[r].object.id
       THEN /\ subscriptions' = MarkCancelled(subscriptions, event[r].object.id, now)
            /\ pc' = [pc EXCEPT ![r] = "respond"]
            /\ UNCHANGED error
       ELSE /\ error' = [error EXCEPT ![r] = IF ok THEN "NotFoundError" ELSE "PersistenceError"]
            /\ pc' = [pc EXCEPT ![r] = "rejected"]
            /\ UNCHANGED subscriptions
    /\ UNCHANGED <<now, expressMajor, reply, subscription_wallets, seqs, req, event, client, tx,
                   locals, response, lookups>>

\* index.js:180-193  handleSubscriptionCancelled: the UPDATE runs through
\* pool.query as one statement, or fails and the error is rethrown.
Cancel(r, ok) ==
    /\ pc[r] = "cancel"
    /\ IF ok
       THEN /\ subscriptions' = MarkCancelled(subscriptions, event[r].object.id, now)
            /\ pc' = [pc EXCEPT ![r] = "respond"]
            /\ UNCHANGED error
       ELSE /\ error' = [error EXCEPT ![r] = "PersistenceError"]
            /\ pc' = [pc EXCEPT ![r] = "rejected"]
            /\ UNCHANGED subscriptions
    /\ UNCHANGED <<now, expressMajor, reply, subscription_wallets, seqs, req, event, client, tx,
                   locals, response, lookups>>

\* The request is over: what the route handler held goes with it.
EndRequest(r) ==
    /\ pc' = [pc EXCEPT ![r] = "done"]
    /\ event' = [event EXCEPT ![r] = NoEvent]
    /\ client' = [client EXCEPT ![r] = "none"]
    /\ tx' = [tx EXCEPT ![r] = NoTx]
    /\ error' = [error EXCEPT ![r] = ""]
    /\ lookups' = [lookups EXCEPT ![r] = 0]

\* index.js:93  res.json({received: true}) once the awaited handler returned.
Respond(r) ==
    /\ pc[r] = "respond"
    /\ response' = [response EXCEPT ![r] = 200]
    /\ EndRequest(r)
    /\ UNCHANGED <<now, expressMajor, reply, store, seqs, req, locals>>

\* index.js:82,87  the awaited handler threw inside the async route handler,
\* which has no try/catch: its promise rejects.  express 5 passes the
\* rejection to the default error handler (500); express 4 ignores the
\* promise, so the request is never answered.  Which express is installed
\* is not told by the sources; it is the same for the whole run.
Rejected(r) ==
    /\ pc[r] = "rejected"
    /\ \E major \in {4, 5} :
          /\ expressMajor \in {0, major}
          /\ expressMajor' = major
          /\ response' = [response EXCEPT ![r] = IF major >= 5 THEN 500 ELSE 0]
    /\ EndRequest(r)
    /\ UNCHANGED <<now, reply, store, seqs, req, locals>>

\* index.js:22-25  the Pool is created with its defaults: no
\* connectionTimeoutMillis, no query_timeout, no statement_timeout, and no
\* await of the handlers is raced against a timer.  A call to the database
\* that never answers therefore leaves the handler waiting at that await;
\* no step of the program leads out of it.
PersistenceCalls == {"connect", "begin", "insertSub", "insertWallet", "commit", "rollback",
                     "cancel"}
NeverAnswers(r) ==
    /\ pc[r] \in PersistenceCalls
    /\ pc' = [pc EXCEPT ![r] = "waiting"]
    /\ UNCHANGED <<now, expressMajor, reply, store, seqs, req, event, client, tx, locals,
                   error, response, lookups>>

\* ------------------------------------------ GET /api/subscription-status

\* Variant: the WHERE clause does not test s.status.
LinkedRows(wallet, subs, links) ==
    {sub \in subs : \E link \in links : /\ link.subscription_id = sub.id
                                       /\ link.wallet_address = wallet}

\* index.js:206-209  FROM subscriptions s INNER JOIN subscription_wallets sw
\* ON s.id = sw.subscription_id WHERE sw.wallet_address = $1 AND
\* s.status = 'active', on the committed rows.
ActiveRows(wallet, subs, links) ==
    {sub \in subs : /\ sub.status = "active"
                    /\ \E link \in links : /\ link.subscription_id = sub.id
                                          /\ link.wallet_address = wallet}

\* Variant: ORDER BY s.created_at ASC.
LeastRecent(rows) == {row \in rows : \A other \in rows : row.created_at <= other.created_at}

\* index.js:210-211  ORDER BY s.created_at DESC LIMIT 1: the rows that may
\* come first; among rows created at the same instant the database is free.
MostRecent(rows) == {row \in rows : \A other \in rows : other.created_at <= row.created_at}

\* index.js:214-239  the JSON answered for the selected row, if any.
StatusReply(wallet, rows, clock) ==
    IF rows = {}
    THEN {[wallet |-> wallet, code |-> 200, hasSubscription |-> FALSE, status |-> "none",
           expiresAt |-> 0]}
    ELSE {IF row.current_period_end > clock
          THEN [wallet |-> wallet, code |-> 200, hasSubscription |-> TRUE,
                status |-> "active", expiresAt |-> row.current_period_end]
          ELSE [wallet |-> wallet, code |-> 200, hasSubscription |-> FALSE,
                status |-> "expired", expiresAt |-> 0] : row \in rows}

\* index.js:201-244  the status query: one SELECT through pool.query, then
\* the answer; a failed SELECT is answered 500.  One query is followed at a
\* time.
StatusQuery(wallet, ok) ==
    /\ reply = NoReply
    /\ IF ok
       THEN reply' \in StatusReply(wallet,
                                     MostRecent(ActiveRows(wallet, subscriptions,
                                                           subscription_wallets)),
                                     now)
       ELSE reply' = [wallet |-> wallet, code |-> 500, hasSubscription |-> FALSE,
                       status |-> "", expiresAt |-> 0]
    /\ UNCHANGED <<now, expressMajor, store, seqs, pc, req, event, client, tx, locals,
                   error, response, lookups>>

\* The answer has reached the caller.
StatusDelivered ==
    /\ reply # NoReply
    /\ reply' = NoReply
    /\ UNCHANGED <<now, expressMajor, store, seqs, pc, req, event, client, tx, locals,
                   error, response, lookups>>

\* --------------------------------------------------------- specifications

\* The payloads of the concurrent runs: a checkout session without wallet
\* metadata of its own, whose subscription carries the wallet (what
\* /create-checkout-session of index.js:282-286 produces), an active
\* subscription with a period end.
UsualEvents ==
    {e \in Events : /\ e.object.wallet = NoWallet
                    /\ e.object.customer_details.wallet = NoWallet
                    /\ (e.type = CheckoutCompleted => e.object.customer_details.present)}
UsualAnswers(sub) ==
    {a \in StripeSubscriptions(sub) : /\ a.wallet = SubscriptionWallet
                                      /\ a.status = "active"
                                      /\ a.current_period_end # 0}

Next ==
    \E r \in Req :
          \/ \E ok \in BOOLEAN, e \in UsualEvents : ReceiveAtRoute(r, ok, e)
          \/ Verify(r)
          \/ \E ok \in BOOLEAN : Connect(r, ok)
          \/ \E ok \in BOOLEAN : Begin(r, ok)
          \/ Retrieve(r, UsualAnswers(event[r].object.subscription))
          \/ \E ok \in BOOLEAN : InsertSubscription(r, ok)
          \/ \E ok \in BOOLEAN : InsertWallet(r, ok)
          \/ \E ok \in BOOLEAN : Commit(r, ok)
          \/ Rollback(r)
          \/ \E ok \in BOOLEAN : Cancel(r, ok)
          \/ Respond(r)
          \/ Rejected(r)

Spec == Init /\ [][Next]_vars

\* One request at a time, every payload and every provider answer.
NextPayload ==
    \E r \in 1..MaxPayloadReq :
          \/ /\ \A q \in 1..(r - 1) : pc[q] = "done"
             /\ \E ok \in BOOLEAN, e \in Events : ReceiveAtRoute(r, ok, e)
          \/ Verify(r)
          \/ \E ok \in BOOLEAN : Connect(r, ok)
          \/ \E ok \in BOOLEAN : Begin(r, ok)
          \/ Retrieve(r, StripeSubscriptions(event[r].object.subscription))
          \/ \E ok \in BOOLEAN : InsertSubscription(r, ok)
          \/ \E ok \in BOOLEAN : InsertWallet(r, ok)
          \/ \E ok \in BOOLEAN : Commit(r, ok)
          \/ Rollback(r)
          \/ \E ok \in BOOLEAN : Cancel(r, ok)
          \/ Respond(r)
          \/ Rejected(r)

SpecPayload == Init /\ [][NextPayload]_vars

\* The status query beside the handlers.  The tables may also hold, from an
\* earlier run, a subscription of sub_1 whose provider gave no period end on
\* day 0, so that it runs 30 days.
EarlierLongSubscription ==
    [EarlierSubscription EXCEPT !.current_period_end = PeriodEndDate(0, 0)]

InitStatus ==
    /\ now = DayMs
    /\ expressMajor = 0
    /\ subscriptions \in {{}, {EarlierSubscription}, {EarlierLongSubscription}}
    /\ subscription_wallets = {WalletRow(sub.id, SubscriptionWallet, sub.created_at) :
                                   sub \in subscriptions}
    /\ subscriptions_id_seq = Cardinality(subscriptions)
    /\ pc = [r \in Req |-> "idle"]
    /\ req = [r \in Req |-> NoRequest]
    /\ event = [r \in Req |-> NoEvent]
    /\ client = [r \in Req |-> "none"]
    /\ tx = [r \in Req |-> NoTx]
    /\ stripeSubscription = [r \in Req |-> NoStripeSubscription]
    /\ walletAddress = [r \in Req |-> NoWallet]
    /\ periodEndDate = [r \in Req |-> 0]
    /\ error = [r \in Req |-> ""]
    /\ response = [r \in Req |-> 0]
    /\ lookups = [r \in Req |-> 0]
    /\ reply = NoReply

\* The wallets asked about: the one the usual checkout links, and one that
\* no subscription is linked to.
QueriedWallets == {SubscriptionWallet, SessionWallet}
\* The provider's answers for a subscription that carries the wallet.
WalletAnswers(sub) == {a \in StripeSubscriptions(sub) : a.wallet = SubscriptionWallet}

NextStatus ==
    \/ \E wallet \in QueriedWallets, ok \in BOOLEAN : StatusQuery(wallet, ok)
    \/ StatusDelivered
    \/ \E r \in 1..MaxPayloadReq :
          \/ /\ \A q \in 1..(r - 1) : pc[q] = "done"
             /\ \E ok \in BOOLEAN, e \in UsualEvents : ReceiveAtRoute(r, ok, e)
          \/ Verify(r)
          \/ \E ok \in BOOLEAN : Connect(r, ok)
          \/ \E ok \in BOOLEAN : Begin(r, ok)
          \/ Retrieve(r, WalletAnswers(event[r].object.subscription))
          \/ \E ok \in BOOLEAN : InsertSubscription(r, ok)
          \/ \E ok \in BOOLEAN : InsertWallet(r, ok)
          \/ \E ok \in BOOLEAN : Commit(r, ok)
          \/ Rollback(r)
          \/ \E ok \in BOOLEAN : Cancel(r, ok)
          \/ Respond(r)
          \/ Rejected(r)

SpecStatus == InitStatus /\ [][NextStatus]_vars

\* The handlers when a call to the database may also never answer.  A call
\* that answers lets the handler take its next step (the event loop runs
\* the continuation of every settled await): weak fairness of the steps of
\* each request.
HandlerStep(r) ==
    \/ Verify(r)
    \/ \E ok \in BOOLEAN : Connect(r, ok)
    \/ \E ok \in BOOLEAN : Begin(r, ok)
    \/ Retrieve(r, UsualAnswers(event[r].object.subscription))
    \/ \E ok \in BOOLEAN : InsertSubscription(r, ok)
    \/ \E ok \in BOOLEAN : InsertWallet(r, ok)
    \/ \E ok \in BOOLEAN : Commit(r, ok)
    \/ Rollback(r)
    \/ \E ok \in BOOLEAN : Cancel(r, ok)
    \/ Respond(r)
    \/ Rejected(r)

NextTimeout ==
    \E r \in 1..MaxPayloadReq :
          \/ /\ \A q \in 1..(r - 1) : pc[q] \in {"done", "waiting"}
             /\ \E ok \in BOOLEAN, e \in UsualEvents : ReceiveAtRoute(r, ok, e)
          \/ Verify(r)
          \/ \E ok \in BOOLEAN : Connect(r, ok)
          \/ \E ok \in BOOLEAN : Begin(r, ok)
          \/ Retrieve(r, UsualAnswers(event[r].object.subscription))
          \/ \E ok \in BOOLEAN : InsertSubscription(r, ok)
          \/ \E ok \in BOOLEAN : InsertWallet(r, ok)
          \/ \E ok \in BOOLEAN : Commit(r, ok)
          \/ Rollback(r)
          \/ \E ok \in BOOLEAN : Cancel(r, ok)
          \/ Respond(r)
          \/ Rejected(r)
          \/ NeverAnswers(r)

SpecTimeout ==
    /\ Init
    /\ [][NextTimeout]_vars
    /\ \A r \in 1..MaxPayloadReq : WF_vars(HandlerStep(r))

\* The application as index.js assembles it: every request passes the global
\* middleware before it reaches the route.
NextWebhook ==
    \E r \in Req :
        \/ \E ct \in ContentTypes, ok \in BOOLEAN, e \in WebhookEvents : Receive(r, ct, ok, e)
        \/ GlobalJson(r)
        \/ Static(r)
        \/ RouteRaw(r)
        \/ Verify(r)

SpecWebhook == Init /\ [][NextWebhook]_vars

\* ------------------------------------------------------------------ claims

LinksOf(sub, links) == {w \in links : w.subscription_id = sub.id}
RowsOf(subId, rows) == {row \in rows : row.stripe_subscription_id = subId}
WithoutUpdatedAt(rows) == {[row EXCEPT !.updated_at = 0] : row \in rows}

\* C1: in every committed state of the store, every Subscription row has
\* exactly one Wallet Link row referencing it, that link is primary, and
\* every Wallet Link references an existing Subscription; this is what any
\* statement of a concurrent reader sees, whatever the handlers in flight.
C1_SubscriptionHasOneLink ==
    /\ \A sub \in subscriptions :
          /\ Cardinality(LinksOf(sub, subscription_wallets)) = 1
          /\ \A w \in LinksOf(sub, subscription_wallets) : w.is_primary
    /\ \A w \in subscription_wallets : \E sub \in subscriptions : sub.id = w.subscription_id

\* Two committed subscriptions, and a handler that has inserted its
\* Subscription but not yet its Wallet Link.
C1_Witness ==
    /\ Cardinality(subscriptions) >= 2
    /\ \E r \in Req : tx[r].state = "open" /\ tx[r].subs # {} /\ tx[r].wallets = {}

\* C2: the payload handed to signature verification is the raw request body,
\* and a correctly signed JSON event is not turned away by verification.
C2_RawBodyVerified ==
    [][\A r \in Req :
          (pc[r] = "verify" /\ pc'[r] # "verify" /\ req[r].contentType = JsonType)
          => /\ req[r].body = Buffer(req[r].sent)
             /\ (req[r].sigOK => response'[r] # 400)]_vars

\* C3: a request whose signature does not verify is answered 400 and is
\* over: no handler is called for it, no provider lookup is made, no client
\* is taken and both tables stay as they are.
C3_BadSignatureRejected ==
    [][\A r \in Req :
          /\ (pc[r] = "verify" /\ pc'[r] # "verify" /\ ~req[r].sigOK)
             => /\ response'[r] = 400
                /\ pc'[r] = "done"
                /\ store' = store
                /\ lookups' = lookups
                /\ client' = client
                /\ tx' = tx
          /\ (pc[r] = "done" => pc'[r] = "done" /\ response'[r] = response[r])]_vars

\* A badly signed request was answered 400 while the store holds rows.
C3_Witness ==
    \E r \in Req : pc[r] = "done" /\ response[r] = 400 /\ subscriptions # {}

NoWalletAnywhere(stripeSub, session) ==
    /\ stripeSub.wallet = NoWallet
    /\ session.wallet = NoWallet
    /\ session.customer_details.wallet = NoWallet

\* C4: when the provider has answered and none of the three metadata
\* locations holds a wallet address, the handler throws the missing-wallet
\* error before any INSERT, rolls back and rejects; none of these steps
\* changes a table and the request is not answered 200.
C4_MissingWalletAborts ==
    [][\A r \in Req :
          /\ (/\ pc[r] = "retrieve" /\ pc'[r] # "retrieve"
              /\ stripeSubscription'[r] # NoStripeSubscription
              /\ NoWalletAnywhere(stripeSubscription'[r], event[r].object))
             => /\ error'[r] = "MissingWalletError"
                /\ pc'[r] = "rollback"
                /\ tx'[r].subs = {} /\ tx'[r].wallets = {}
                /\ store' = store
          /\ (error[r] = "MissingWalletError" /\ pc'[r] # pc[r])
             => /\ store' = store
                /\ pc'[r] \in {"rejected", "done"}
                /\ response'[r] # 200]_vars

\* The handler has thrown the missing-wallet error; the store holds rows.
C4_Witness ==
    \E r \in Req :
        /\ pc[r] = "rollback" /\ error[r] = "MissingWalletError"
        /\ NoWalletAnywhere(stripeSubscription[r], event[r].object)
        /\ subscriptions # {}

\* C5: a failure of the provider lookup, of the Subscription insert or of
\* the Wallet Link insert sends the handler to its ROLLBACK without touching
\* the committed tables; the ROLLBACK ends the transaction, publishes none
\* of its rows and rejects; no step of the failed request changes a
\* committed table.
C5_FailureRollsBack ==
    [][\A r \in Req :
          /\ (pc[r] \in {"retrieve", "insertSub", "insertWallet"} /\ error'[r] # error[r])
             => pc'[r] = "rollback" /\ store' = store
          /\ (pc[r] = "rollback" /\ pc'[r] # "rollback")
             => /\ store' = store
                /\ tx'[r].state = "rolledback"
                /\ tx'[r].subs = {} /\ tx'[r].wallets = {}
                /\ \A row \in tx[r].subs : \A sub \in subscriptions' : sub.id # row.id
                /\ pc'[r] = "rejected"
          /\ (pc[r] = "rejected" /\ pc'[r] # "rejected") => store' = store]_vars

\* The Wallet Link insert has failed after the Subscription insert.
C5_Witness ==
    \E r \in Req :
        /\ pc[r] = "rollback" /\ error[r] = "PersistenceError"
        /\ tx[r].subs # {} /\ tx[r].wallets = {}

\* C6: whenever handleSubscriptionCreated or handleSubscriptionCancelled
\* throws, the webhook request receives a non-2xx response.
C6_FailureAnsweredNon2xx ==
    [][\A r \in Req :
          (pc[r] = "rejected" /\ pc'[r] # "rejected") => response'[r] >= 300]_vars

\* C7: the 200 of a checkout-completed event is sent only once the
\* transaction of its handler is committed and its rows are in the tables.
C7_ResponseAfterCommit ==
    [][\A r \in Req :
          (event[r].type = CheckoutCompleted /\ response[r] # 200 /\ response'[r] = 200)
          => /\ tx[r].state = "committed"
             /\ tx[r].subs # {} /\ tx[r].wallets # {}
             /\ \A row \in tx[r].subs : \E sub \in subscriptions : sub.id = row.id
             /\ tx[r].wallets \subseteq subscription_wallets]_vars

\* A creation has committed and its 200 is about to be sent.
C7_Witness ==
    \E r \in Req :
        pc[r] = "respond" /\ event[r].type = CheckoutCompleted /\ tx[r].state = "committed"

PriorityChain(subscriptionLevel, sessionLevel, detailsLevel) ==
    IF subscriptionLevel # NoWallet THEN subscriptionLevel
    ELSE IF sessionLevel # NoWallet THEN sessionLevel
    ELSE detailsLevel

\* C8: the Wallet Link a creation commits carries the first non-empty
\* address of: subscription metadata, session metadata, session
\* customer-details metadata.
C8_WalletPriority ==
    [][\A r \in Req :
          (pc[r] = "commit" /\ pc'[r] = "respond")
          => LET added == subscription_wallets' \ subscription_wallets
             IN  /\ Cardinality(added) = 1
                 /\ \A w \in added :
                       w.wallet_address =
                           PriorityChain(stripeSubscription[r].wallet, event[r].object.wallet,
                                         event[r].object.customer_details.wallet)]_vars

\* Subscription and session metadata carry different addresses and the link
\* is about to be committed.
C8_Witness ==
    \E r \in Req :
        /\ pc[r] = "commit"
        /\ stripeSubscription[r].wallet = SubscriptionWallet
        /\ event[r].object.wallet = SessionWallet
        /\ \E w \in tx[r].wallets : w.wallet_address = SubscriptionWallet

\* C9: once the UPDATE of a cancellation for identifier X has run, every
\* committed row with identifier X is cancelled; if they all were already
\* (a redelivery), the tables are what they were apart from updated_at; the
\* Wallet Links are untouched, no error is raised and the answer is 200.
C9_CancelIdempotent ==
    [][\A r \in Req :
          /\ (pc[r] = "cancel" /\ pc'[r] = "respond")
             => LET X == event[r].object.id
                IN  /\ \A row \in RowsOf(X, subscriptions') : row.status = "cancelled"
                    /\ (\A row \in RowsOf(X, subscriptions) : row.status = "cancelled")
                       => WithoutUpdatedAt(subscriptions') = WithoutUpdatedAt(subscriptions)
                    /\ subscription_wallets' = subscription_wallets
                    /\ error'[r] = ""
          /\ (pc[r] = "respond" /\ event[r].type = SubscriptionDeleted /\ pc'[r] # "respond")
             => response'[r] = 200]_vars

\* The same cancellation was delivered twice, both in flight together, and
\* both UPDATEs have run on an existing row.
C9_Witness ==
    \E r1, r2 \in Req :
        /\ r1 # r2
        /\ pc[r1] = "respond" /\ pc[r2] = "respond"
        /\ event[r1].type = SubscriptionDeleted /\ event[r2] = event[r1]
        /\ RowsOf(event[r1].object.id, subscriptions) # {}

\* C10: a cancellation whose identifier matches no committed row changes
\* neither table and, unless the UPDATE statement itself fails, raises no
\* error and is answered 200; a completion that commits, whatever came
\* before, adds exactly one Subscription row for its identifier, with the
\* status the provider gave, and one primary Wallet Link for that row, and
\* leaves the rows already there as they are.
C10_UnknownCancelIsNoOp ==
    [][\A r \in Req :
          /\ (pc[r] = "cancel" /\ pc'[r] # "cancel"
              /\ RowsOf(event[r].object.id, subscriptions) = {})
             => /\ store' = store
                /\ \/ pc'[r] = "respond" /\ error'[r] = ""
                   \/ pc'[r] = "rejected" /\ error'[r] = "PersistenceError"
          /\ (pc[r] = "respond" /\ pc'[r] # "respond") => response'[r] = 200
          /\ (pc[r] = "commit" /\ pc'[r] = "respond")
             => LET newSubs == subscriptions' \ subscriptions
                    newLinks == subscription_wallets' \ subscription_wallets
                IN  /\ subscriptions \subseteq subscriptions'
                    /\ subscription_wallets \subseteq subscription_wallets'
                    /\ Cardinality(newSubs) = 1 /\ Cardinality(newLinks) = 1
                    /\ \A sub \in newSubs :
                          /\ sub.stripe_subscription_id = event[r].object.subscription
                          /\ sub.status = stripeSubscription[r].status
                          /\ \A w \in newLinks : w.subscription_id = sub.id /\ w.is_primary]_vars

\* The UPDATE of a cancellation for X has run while no row with X is
\* committed, and a completion for X stands at its COMMIT.
C10_Witness ==
    \E r1, r2 \in Req :
        /\ pc[r1] = "respond" /\ event[r1].type = SubscriptionDeleted
        /\ RowsOf(event[r1].object.id, subscriptions) = {}
        /\ pc[r2] = "commit" /\ event[r2].type = CheckoutCompleted
        /\ event[r2].object.subscription = event[r1].object.id

\* C11: every external subscription identifier has at most one Subscription
\* row, whatever completion events were delivered and however often, and
\* that row has exactly one Wallet Link.
C11_CreatedExactlyOnce ==
    \A X \in SubIds :
        /\ Cardinality(RowsOf(X, subscriptions)) <= 1
        /\ \A sub \in RowsOf(X, subscriptions) :
              Cardinality(LinksOf(sub, subscription_wallets)) = 1

\* C12: the Subscription row that a successfully reconciled completion
\* commits has status active, whatever subscription object the provider
\* lookup returned.
C12_CreatedActive ==
    [][\A r \in Req :
          (pc[r] = "commit" /\ pc'[r] = "respond")
          => \A sub \in subscriptions' \ subscriptions : sub.status = "active"]_vars

Linked(wallet, sub) ==
    \E link \in subscription_wallets :
        link.subscription_id = sub.id /\ link.wallet_address = wallet
ActiveLinked(wallet) == {sub \in subscriptions : sub.status = "active" /\ Linked(wallet, sub)}
Newest(rows) == {row \in rows : \A other \in rows : other.created_at <= row.created_at}

\* C13: a status query for a wallet whose most recently created
\* active-status linked Subscription has a period end not later than now
\* answers hasSubscription false, status expired, and leaves the stored
\* status active; with no active-status Subscription linked to the wallet
\* it answers status none.
C13_ExpiredOrNone ==
    [][(reply = NoReply /\ reply' # NoReply /\ reply'.code = 200)
       => LET rows == ActiveLinked(reply'.wallet)
          IN  /\ rows = {} => (reply'.status = "none" /\ ~reply'.hasSubscription)
              /\ (rows # {} /\ \A row \in Newest(rows) : row.current_period_end <= now)
                 => (reply'.status = "expired" /\ ~reply'.hasSubscription)
              /\ subscriptions' = subscriptions]_vars

\* The query answered expired for the newest row while an older active row
\* linked to the same wallet still runs.
C13_Witness ==
    /\ reply.code = 200 /\ reply.status = "expired"
    /\ \E sub \in ActiveLinked(reply.wallet) : sub.current_period_end > now
    /\ \E sub \in Newest(ActiveLinked(reply.wallet)) : sub.current_period_end <= now

C15_OtherEventAcknowledged ==
    [][\A r \in Req :
          (/\ pc[r] = "verify" /\ pc'[r] # "verify"
           /\ req[r].body = Buffer(req[r].sent) /\ req[r].sigOK
           /\ req[r].sent.type \notin {CheckoutCompleted, SubscriptionDeleted})
          => /\ response'[r] = 200
             /\ pc'[r] = "done"
             /\ store' = store
             /\ lookups' = lookups
             /\ client' = client
             /\ tx' = tx]_vars

\* A verified event of another type is about to be dispatched while the
\* tables hold rows.
C15_Witness ==
    \E r \in Req :
        /\ pc[r] = "verify" /\ req[r].sigOK /\ req[r].body = Buffer(req[r].sent)
        /\ req[r].sent.type = OtherType
        /\ subscriptions # {}

\* C16: the Subscription row a reconciliation commits has a period end: the
\* provider's epoch seconds as milliseconds when the provider gave a usable
\* number, else the time of processing plus 30 days.
C16_PeriodEndNeverAbsent ==
    [][\A r \in Req :
          (pc[r] = "commit" /\ pc'[r] = "respond")
          => \A sub \in subscriptions' \ subscriptions :
                /\ sub.current_period_end > 0
                /\ sub.current_period_end =
                      IF stripeSubscription[r].current_period_end # 0
                      THEN stripeSubscription[r].current_period_end * 1000
                      ELSE now + 30 * DayMs]_vars

\* The provider gave no period end and the row about to be committed runs
\* 30 days from now.
C16_Witness ==
    \E r \in Req :
        /\ pc[r] = "commit"
        /\ stripeSubscription[r].current_period_end = 0
        /\ \E sub \in tx[r].subs : sub.current_period_end = now + 30 * DayMs

\* C18: when handleSubscriptionCreated returns or throws after it obtained
\* a client, its transaction is committed or rolled back and the client is
\* released; no request past its handler holds a client or has a
\* transaction open.
C18_ClientReleased ==
    [][\A r \in Req :
          /\ (client[r] = "held" /\ pc[r] \notin {"respond", "rejected"}
              /\ pc'[r] \in {"respond", "rejected"})
             => /\ client'[r] = "released"
                /\ tx'[r].state \in {"committed", "rolledback"}
          /\ pc'[r] \in {"respond", "rejected", "done", "idle"}
             => /\ client'[r] # "held"
                /\ tx'[r].state \notin {"open", "aborted"}]_vars

\* The handler has thrown for a missing wallet; its transaction is rolled
\* back and its client released.
C18_Witness ==
    \E r \in Req :
        /\ pc[r] = "rejected" /\ error[r] = "MissingWalletError"
        /\ client[r] = "released" /\ tx[r].state = "rolledback"

WithoutStatus(rows) == {[row EXCEPT !.status = "", !.updated_at = 0] : row \in rows}

\* C19: a cancellation for identifier X changes only status and updated_at
\* of the rows whose identifier is X, and no Wallet Link; a completion for X
\* only adds rows, all of them for X; no other step changes a table.
C19_OtherRowsUntouched ==
    [][\A r \in Req :
          /\ (pc[r] = "cancel" /\ pc'[r] # "cancel")
             => LET X == event[r].object.id
                IN  /\ subscriptions' \ RowsOf(X, subscriptions')
                          = subscriptions \ RowsOf(X, subscriptions)
                    /\ WithoutStatus(subscriptions') = WithoutStatus(subscriptions)
                    /\ subscription_wallets' = subscription_wallets
          /\ (pc[r] = "commit" /\ pc'[r] # "commit")
             => LET X == event[r].object.subscription
                IN  /\ subscriptions \subseteq subscriptions'
                    /\ subscription_wallets \subseteq subscription_wallets'
                    /\ \A sub \in subscriptions' \ subscriptions :
                          sub.stripe_subscription_id = X
                    /\ \A link \in subscription_wallets' \ subscription_wallets :
                          \E sub \in subscriptions' \ subscriptions :
                              link.subscription_id = sub.id
          /\ (pc[r] \notin {"cancel", "commit"} /\ pc'[r] # pc[r]) => store' = store]_vars

\* Handlers for different identifiers were in flight together: a
\* cancellation for one has updated its row, a completion for the other has
\* committed.
C19_Witness ==
    \E r1, r2 \in Req :
        /\ pc[r1] = "respond" /\ event[r1].type = SubscriptionDeleted
        /\ RowsOf(event[r1].object.id, subscriptions) # {}
        /\ pc[r2] = "respond" /\ event[r2].type = CheckoutCompleted
        /\ event[r2].object.subscription # event[r1].object.id
        /\ \E sub \in RowsOf(event[r2].object.subscription, subscriptions) :
              sub.status = "active"

\* C20: a row that is cancelled stays cancelled, and no step removes a
\* Subscription row or a Wallet Link row: the row counts never decrease.
C20_CancelledIsFinal ==
    [][/\ \A row \in subscriptions :
             \E later \in subscriptions' :
                 /\ later.id = row.id
                 /\ row.status = "cancelled" => later.status = "cancelled"
       /\ subscription_wallets \subseteq subscription_wallets'
       /\ Cardinality(subscriptions') >= Cardinality(subscriptions)
       /\ Cardinality(subscription_wallets') >= Cardinality(subscription_wallets)]_vars

\* A completion for an identifier was committed after a row with that
\* identifier had been cancelled, and the cancelled row is still there.
C20_Witness ==
    \E old, new \in subscriptions :
        /\ old.status = "cancelled"
        /\ new.stripe_subscription_id = old.stripe_subscription_id
        /\ new.created_at > old.updated_at

\* C17: the handling of every webhook event eventually ends, also when a
\* persistence call never answers.
C17_HandlingEnds ==
    \A r \in Req : (pc[r] = "verify") ~> (pc[r] = "done")

====
